---- MODULE Spec2Model ----
(***************************************************************************)
(* Model of the unused-ConfigMap cleaner (ginolatorilla/devops).           *)
(*                                                                         *)
(* Two revisions of the same command live in the repository:               *)
(*   "clean" : src/src/kubernetes/clean.rs  (filter, propagated errors)    *)
(*   "k8s"   : src/src/k8s.rs               (no filter, errors swallowed)  *)
(* A run is one call of clean_config_maps against a cluster.               *)
(***************************************************************************)
EXTENDS Integers, Sequences, FiniteSets, TLC

VARIABLES
    revision,            \* which source file's clean_config_maps runs
    dry_run,             \* CommandArgs.dry_run
    filter,              \* CommandArgs.filter (None or a pattern)
    inverse_filter,      \* CommandArgs.inverse_filter
    cluster,             \* API server contents: config maps and workloads
    pc,                  \* position of the run inside clean_config_maps
    list_calls,          \* kinds for which a list call was issued
    list_errors,         \* kinds whose list call the API server failed
    results,             \* the eight values bound by join!
    used_config_maps,    \* local used_config_maps
    config_maps,         \* local config_maps (declared names)
    unused_config_maps,  \* local unused_config_maps (the candidate set)
    filtered_out,        \* names logged "filtered-out" by the filter closure
    printed,             \* names written to stdout by println!
    targets,             \* names delete_resources has still to visit
    delete_calls,        \* delete calls issued to the cluster, in order
    delete_errors,       \* names whose delete call returned an error
    outcome,             \* "Running", "Ok", "Err" or "Panic"
    pending,             \* kinds whose list call is issued and not answered
    in_flight,           \* names whose delete call is issued and not answered
    run,                 \* 1 in the first call of the command, 2 in the second
    first                \* what the first call computed and deleted

vars == <<revision, dry_run, filter, inverse_filter, cluster, pc, list_calls,
          list_errors, results, used_config_maps, config_maps, unused_config_maps,
          filtered_out, printed, targets, delete_calls, delete_errors, outcome,
          pending, in_flight, run, first>>

\* The variables only the step-by-step run moves.
steps == <<pending, in_flight, run, first>>

args == <<revision, dry_run, filter, inverse_filter>>

-----------------------------------------------------------------------------
(* Bounds of the model. *)

\* Most workload objects a sampled cluster holds.
MaxWorkloads == 2

\* Most list calls that fail in one run.
MaxListFailures == 1

-----------------------------------------------------------------------------
(* Values. *)

None == "None"

EXEMPTIONS == {"kube-root-ca.crt"}

\* ConfigMap names of the modelled clusters.
Names == {"kube-root-ca.crt", "temp-a", "other"}

\* Filter patterns a user may pass: two that compile, one that does not.
Patterns == {"^temp-", "ot", "("}

WorkloadKinds ==
    <<"Pod", "Deployment", "ReplicaSet", "StatefulSet", "DaemonSet", "CronJob", "Job">>

Kinds == {"ConfigMap"} \cup {WorkloadKinds[i] : i \in 1..Len(WorkloadKinds)}

OwnerlessKinds == {"Pod", "Job"}

\* The characters of a name or pattern.
Chars(s) ==
    CASE s = "kube-root-ca.crt" ->
           <<"k","u","b","e","-","r","o","o","t","-","c","a",".","c","r","t">>
      [] s = "temp-a" -> <<"t","e","m","p","-","a">>
      [] s = "other"  -> <<"o","t","h","e","r">>
      [] s = "^temp-" -> <<"^","t","e","m","p","-">>
      [] s = "ot"     -> <<"o","t">>
      [] s = "("      -> <<"(">>

-----------------------------------------------------------------------------
(* The regex crate, for the patterns above: literal text, an optional      *)
(* leading "^" anchor, and groups that must be closed.                     *)

Count(seq, c) == Cardinality({i \in 1..Len(seq) : seq[i] = c})

\* Regex::new(pattern).is_ok()
RegexNewOk(pattern) == Count(Chars(pattern), "(") = Count(Chars(pattern), ")")

\* Regex::new(pattern).unwrap().find(name).is_some()
RegexFind(pattern, name) ==
    LET p        == Chars(pattern)
        anchored == Len(p) > 0 /\ p[1] = "^"
        lit      == IF anchored THEN Tail(p) ELSE p
        text     == Chars(name)
    IN \E i \in 1..(Len(text) - Len(lit) + 1) :
          /\ anchored => i = 1
          /\ SubSeq(text, i, i + Len(lit) - 1) = lit

-----------------------------------------------------------------------------
(* Workload objects.                                                       *)
(* A reference field is None or a ConfigMap name.  An Option<Vec<..>> is   *)
(* Absent or Present(set).  A container has env (the config_map_key_ref    *)
(* names of its variables) and env_from (the config_map_ref names of its   *)
(* sources).  A volume has config_map (None or a name) and projected (the  *)
(* config_map names of its sources).                                       *)

Absent     == {}
Present(s) == {s}
\* The elements of an optional list, none when it is absent.
Some(opt)  == UNION opt

OptNames == Names \cup {None}

Container(env, env_from) == [env |-> env, env_from |-> env_from]
Volume(cm, projected)    == [config_map |-> cm, projected |-> projected]
PodSpecOf(cs, vs)        == [containers |-> cs, volumes |-> vs]

\* Pod specs with at most one reference field.
PodSpecs ==
       {PodSpecOf({}, Absent), PodSpecOf({Container(Absent, Absent)}, Present({}))}
  \cup {PodSpecOf({Container(Present({n}), Absent)}, Absent) : n \in OptNames}
  \cup {PodSpecOf({Container(Absent, Present({n}))}, Absent) : n \in OptNames}
  \cup {PodSpecOf({Container(Absent, Absent)}, Present({Volume(n, Absent)})) :
           n \in OptNames}
  \cup {PodSpecOf({Container(Absent, Absent)}, Present({Volume(None, Present({n}))})) :
           n \in OptNames}

\* The optional fields each kind's pod_spec() unwraps, outermost first.
PodSpecPath(kind) ==
    CASE kind = "Pod"         -> <<"spec">>
      [] kind = "Deployment"  -> <<"spec", "template.spec">>
      [] kind = "ReplicaSet"  -> <<"spec", "template", "template.spec">>
      [] kind = "StatefulSet" -> <<"spec", "template.spec">>
      [] kind = "DaemonSet"   -> <<"spec", "template.spec">>
      [] kind = "CronJob"     -> <<"spec", "job_template.spec", "template.spec">>
      [] kind = "Job"         -> <<"spec", "template.spec">>

PathFields(kind) == {PodSpecPath(kind)[i] : i \in 1..Len(PodSpecPath(kind))}

\* metadata.owner_references: absent, present and empty, present with an owner.
OwnerRefs == {None, "Empty", "Owned"}

\* Objects of one kind: `absent` is the field of the path that is None (or
\* None when the pod template is there), pod_spec the template when present
\* (and a placeholder nothing reads when it is not).
\* Owner references are read for Pods and Jobs only.
ObjectsOf(kind) ==
    LET owners == IF kind \in OwnerlessKinds THEN OwnerRefs ELSE {None}
    IN    [kind : {kind}, owner_references : owners, absent : {None},
           pod_spec : PodSpecs]
     \cup [kind : {kind}, owner_references : owners, absent : PathFields(kind),
           pod_spec : {PodSpecOf({}, Absent)}]

Workloads == UNION {ObjectsOf(WorkloadKinds[i]) : i \in 1..Len(WorkloadKinds)}

\* HasPodSpec::pod_spec: every unwrap() of the path succeeds.
HasPodSpec(obj) ==
    \A i \in 1..Len(PodSpecPath(obj.kind)) : PodSpecPath(obj.kind)[i] # obj.absent

\* The template pod_spec() returns when it does not panic.
pod_spec(obj) == obj.pod_spec

-----------------------------------------------------------------------------
(* Reference extraction. *)

extract_config_maps_from_env_vars(spec) ==
    UNION {Some(c.env) : c \in spec.containers} \ {None}

extract_config_maps_from_env_from(spec) ==
    UNION {Some(c.env_from) : c \in spec.containers} \ {None}

extract_config_maps_from_volumes(spec) ==
    {v.config_map : v \in Some(spec.volumes)} \ {None}

extract_config_maps_from_projected_volumes(spec) ==
    UNION {Some(v.projected) : v \in Some(spec.volumes)} \ {None}

\* The chain without its last link.
extract_config_maps_without_projected(spec) ==
         extract_config_maps_from_env_vars(spec)
    \cup extract_config_maps_from_env_from(spec)
    \cup extract_config_maps_from_volumes(spec)

extract_config_maps_from(spec) ==
         extract_config_maps_from_env_vars(spec)
    \cup extract_config_maps_from_env_from(spec)
    \cup extract_config_maps_from_volumes(spec)
    \cup extract_config_maps_from_projected_volumes(spec)

\* get_config_map_references panics when one object's pod_spec() does.
ReferencesPanic(resources) == \E r \in resources : ~HasPodSpec(r)

get_config_map_references(resources) ==
    UNION {extract_config_maps_from(pod_spec(r)) : r \in resources}

-----------------------------------------------------------------------------
(* The cluster and the list calls. *)

\* The subsets of S with at most n elements.
RECURSIVE UpTo(_, _)
UpTo(S, n) ==
    IF n = 0 THEN {{}}
    ELSE LET smaller == UpTo(S, n - 1)
         IN smaller \cup {s \cup {x} : s \in smaller, x \in S}

Object(kind, owners, absent, spec) ==
    [kind |-> kind, owner_references |-> owners, absent |-> absent, pod_spec |-> spec]

\* A sample of the workload objects: the kinds, reference fields, owner
\* references and absent templates the run tells apart.
SampleWorkloads ==
    { Object("Deployment", None, None,
             PodSpecOf({Container(Absent, Present({"temp-a"}))}, Absent)),
      Object("CronJob", None, None,
             PodSpecOf({Container(Absent, Absent)},
                       Present({Volume(None, Present({"other"}))}))),
      Object("Pod", None, None,
             PodSpecOf({Container(Absent, Absent)},
                       Present({Volume("kube-root-ca.crt", Absent)}))),
      Object("Pod", "Owned", None,
             PodSpecOf({Container(Present({"temp-a"}), Absent)}, Absent)),
      Object("Job", "Empty", None,
             PodSpecOf({Container(Present({"other"}), Absent)}, Absent)),
      Object("StatefulSet", None, "template.spec", PodSpecOf({}, Absent)) }

\* Clusters of a few sampled workloads.
Clusters ==
    {[config_maps |-> cms, workloads |-> ws] :
        cms \in SUBSET Names, ws \in UpTo(SampleWorkloads, MaxWorkloads)}

\* Clusters of at most one workload, any object of the kinds.
SingleWorkloadClusters ==
    {[config_maps |-> cms, workloads |-> ws] :
        cms \in SUBSET Names, ws \in {{}} \cup {{w} : w \in Workloads}}

Ok(items) == [ok |-> TRUE, pending |-> FALSE, items |-> items]
Err       == [ok |-> FALSE, pending |-> FALSE, items |-> {}]
Pending   == [ok |-> FALSE, pending |-> TRUE, items |-> {}]

\* What the API server holds of one kind (ConfigMaps by name).
Items(c, kind) ==
    IF kind = "ConfigMap" THEN c.config_maps
    ELSE {w \in c.workloads : w.kind = kind}

\* get_resources::<K>: `failing` are the kinds whose list call errors.
get_resources(rev, c, kind, failing) ==
    IF kind \in failing
    THEN IF rev = "clean" THEN Err ELSE Ok({})
    ELSE Ok(Items(c, kind))

\* get_ownerless_resources::<K>: keeps the objects without owner_references.
get_ownerless_resources(rev, c, kind, failing) ==
    LET r == get_resources(rev, c, kind, failing)
    IN IF r.ok THEN Ok({o \in r.items : o.owner_references = None}) ELSE r

\* The eight futures of join!.
Fetch(rev, c, kind, failing) ==
    IF kind \in OwnerlessKinds
    THEN get_ownerless_resources(rev, c, kind, failing)
    ELSE get_resources(rev, c, kind, failing)

-----------------------------------------------------------------------------
(* The merge of the seven workload results, in source order: the first     *)
(* Err returns, the first object without a pod template panics.            *)

RECURSIVE MergeFrom(_, _, _)
MergeFrom(res, i, used) ==
    IF i > Len(WorkloadKinds) THEN [status |-> "Ok", used |-> used]
    ELSE LET r == res[WorkloadKinds[i]]
         IN IF ~r.ok THEN [status |-> "Err", used |-> {}]
            ELSE IF ReferencesPanic(r.items) THEN [status |-> "Panic", used |-> {}]
            ELSE MergeFrom(res, i + 1, used \cup get_config_map_references(r.items))

-----------------------------------------------------------------------------
(* The two filter closures of clean_config_maps. *)

\* The first closure letting every name through.
IsExemptedNever(name) == FALSE

IsExempted(name) == name \in EXEMPTIONS

\* The second closure with inverse_filter left unread.
FilterKeepsMatching(f, inverse, name) == f = None \/ RegexFind(f, name)

\* The closure of lines 135-157 once the pattern compiled.
FilterKeeps(f, inverse, name) ==
    IF f = None THEN TRUE
    ELSE LET is_matching == RegexFind(f, name)
         IN IF inverse
            THEN (IF is_matching THEN FALSE ELSE TRUE)
            ELSE (IF is_matching THEN TRUE ELSE FALSE)

\* The names that reach the second closure.
NotExempted(declared, used) == {n \in declared \ used : ~IsExempted(n)}

\* Regex::new(..).unwrap() runs inside the closure, once per name reaching it.
FilterPanics(f, declared, used) ==
    f # None /\ ~RegexNewOk(f) /\ NotExempted(declared, used) # {}

\* The chain without the difference with the used set.
CandidatesOfDeclared(f, inverse, declared, used) ==
    {n \in declared : ~IsExempted(n) /\ FilterKeeps(f, inverse, n)}

Candidates(f, inverse, declared, used) ==
    {n \in NotExempted(declared, used) : FilterKeeps(f, inverse, n)}

-----------------------------------------------------------------------------
(* The run. *)

\* The state at the call of clean_config_maps; k8s.rs takes no filter.
Start ==
    /\ revision \in {"clean", "k8s"}
    /\ dry_run \in BOOLEAN
    /\ filter \in (IF revision = "clean" THEN Patterns \cup {None} ELSE {None})
    /\ inverse_filter \in (IF revision = "clean" THEN BOOLEAN ELSE {FALSE})
    /\ pc = "start"
    /\ list_calls = {}
    /\ list_errors = {}
    /\ results = [k \in Kinds |-> Pending]
    /\ used_config_maps = {}
    /\ config_maps = {}
    /\ unused_config_maps = {}
    /\ filtered_out = {}
    /\ printed = {}
    /\ targets = {}
    /\ delete_calls = <<>>
    /\ delete_errors = {}
    /\ outcome = "Running"
    /\ pending = {}
    /\ in_flight = {}
    /\ run = 1
    /\ first = [computed |-> FALSE, candidates |-> {}, deleted |-> {}]

Init == Start /\ cluster \in Clusters

InitShapes == Start /\ cluster \in SingleWorkloadClusters

\* join!(...): the eight list calls are issued and all of them awaited.
Join ==
    /\ pc = "start"
    /\ \E failing \in UpTo(Kinds, MaxListFailures) :
          /\ results' = [k \in Kinds |-> Fetch(revision, cluster, k, failing)]
          /\ list_errors' = failing
    /\ list_calls' = Kinds
    /\ pc' = "joined"
    /\ UNCHANGED <<args, steps, cluster, used_config_maps, config_maps,
                   unused_config_maps, filtered_out, printed, targets,
                   delete_calls, delete_errors, outcome>>

\* The seven get_config_map_references calls.
Merge ==
    /\ pc = "joined"
    /\ LET m == MergeFrom(results, 1, {})
       IN IF m.status = "Ok"
          THEN /\ used_config_maps' = m.used
               /\ pc' = "merged"
               /\ outcome' = outcome
          ELSE /\ used_config_maps' = used_config_maps
               /\ pc' = "done"
               /\ outcome' = m.status
    /\ UNCHANGED <<args, steps, cluster, list_calls, list_errors, results, config_maps,
                   unused_config_maps, filtered_out, printed, targets,
                   delete_calls, delete_errors>>

\* The declared names and the candidate set.
Diff ==
    /\ pc = "merged"
    /\ LET cms == results["ConfigMap"]
       IN IF ~cms.ok
          THEN /\ outcome' = "Err"
               /\ pc' = "done"
               /\ UNCHANGED <<config_maps, unused_config_maps, filtered_out>>
          ELSE /\ config_maps' = cms.items
               /\ IF FilterPanics(filter, cms.items, used_config_maps)
                  THEN /\ outcome' = "Panic"
                       /\ pc' = "done"
                       /\ UNCHANGED <<unused_config_maps, filtered_out>>
                  ELSE /\ unused_config_maps' =
                            Candidates(filter, inverse_filter, cms.items, used_config_maps)
                       /\ filtered_out' =
                            {n \in NotExempted(cms.items, used_config_maps) :
                                ~FilterKeeps(filter, inverse_filter, n)}
                       /\ pc' = "diffed"
                       /\ outcome' = outcome
    /\ UNCHANGED <<args, steps, cluster, list_calls, list_errors, results, used_config_maps,
                   printed, targets, delete_calls, delete_errors>>

\* The counts line and one println! per candidate.
Report ==
    /\ pc = "diffed"
    /\ printed' = unused_config_maps
    /\ pc' = "reported"
    /\ UNCHANGED <<args, steps, cluster, list_calls, list_errors, results, used_config_maps,
                   config_maps, unused_config_maps, filtered_out, targets,
                   delete_calls, delete_errors, outcome>>

\* if dry_run { info!("Not deleting anything") } ... Ok(())
DryRun ==
    /\ pc = "reported"
    /\ dry_run
    /\ outcome' = "Ok"
    /\ pc' = "done"
    /\ UNCHANGED <<args, steps, cluster, list_calls, list_errors, results, used_config_maps,
                   config_maps, unused_config_maps, filtered_out, printed,
                   targets, delete_calls, delete_errors>>

\* The deletion entered whatever dry_run says.
StartDeleteAlways ==
    /\ pc = "reported"
    /\ targets' = unused_config_maps
    /\ pc' = "deleting"
    /\ UNCHANGED <<args, steps, cluster, list_calls, list_errors, results, used_config_maps,
                   config_maps, unused_config_maps, filtered_out, printed,
                   delete_calls, delete_errors, outcome>>

\* delete_resources is entered with the candidates, in hash order.
StartDelete ==
    /\ pc = "reported"
    /\ ~dry_run
    /\ targets' = unused_config_maps
    /\ pc' = "deleting"
    /\ UNCHANGED <<args, steps, cluster, list_calls, list_errors, results, used_config_maps,
                   config_maps, unused_config_maps, filtered_out, printed,
                   delete_calls, delete_errors, outcome>>

\* The loop leaves at a failed delete: `.await?` returns the error.
returns_on_error(rev) == rev = "clean"

\* One iteration of the loop of delete_resources: one delete call, which the
\* API server carries out or answers with an error.
DeleteCall ==
    /\ pc = "deleting"
    /\ \E t \in targets, ok \in BOOLEAN :
          /\ delete_calls' = Append(delete_calls, t)
          /\ targets' = targets \ {t}
          /\ IF ok
             THEN /\ cluster' = [cluster EXCEPT !.config_maps = @ \ {t}]
                  /\ UNCHANGED delete_errors
                  /\ pc' = pc
             ELSE /\ cluster' = cluster
                  /\ delete_errors' = delete_errors \cup {t}
                  /\ pc' = IF returns_on_error(revision) THEN "deleted" ELSE pc
    /\ UNCHANGED <<args, steps, list_calls, list_errors, results, used_config_maps, config_maps,
                   unused_config_maps, filtered_out, printed, outcome>>

\* The loop ends with no target left.
DeleteReturn ==
    /\ pc = "deleting"
    /\ targets = {}
    /\ in_flight = {}
    /\ pc' = "deleted"
    /\ UNCHANGED <<args, steps, cluster, list_calls, list_errors, results, used_config_maps,
                   config_maps, unused_config_maps, filtered_out, printed,
                   targets, delete_calls, delete_errors, outcome>>

\* let _ = delete_resources(..).await; ... Ok(())
Finish ==
    /\ pc = "deleted"
    /\ outcome' = "Ok"
    /\ pc' = "done"
    /\ UNCHANGED <<args, steps, cluster, list_calls, list_errors, results, used_config_maps,
                   config_maps, unused_config_maps, filtered_out, printed,
                   targets, delete_calls, delete_errors>>

Next ==
    \/ Join
    \/ Merge
    \/ Diff
    \/ Report
    \/ DryRun
    \/ StartDelete
    \/ DeleteCall
    \/ DeleteReturn
    \/ Finish

Spec == Init /\ [][Next]_vars

\* The same run over clusters of one workload of any kind and shape.
SpecShapes == InitShapes /\ [][Next]_vars

-----------------------------------------------------------------------------
(* The run step by step: each list call and each delete call is issued and *)
(* answered in steps of their own, and the command is called a second time.*)

\* The sampled workloads no owner holds and whose pod template is present.
StepWorkloads ==
    {w \in SampleWorkloads : w.owner_references = None /\ w.absent = None}

StepClusters ==
    {[config_maps |-> Names, workloads |-> ws] :
        ws \in UpTo(StepWorkloads, MaxWorkloads)}

InitSteps == Start /\ cluster \in StepClusters

\* The first poll of join!: each of the eight futures sends its list request.
Poll ==
    /\ pc = "start"
    /\ list_calls' = Kinds
    /\ pending' = Kinds
    /\ pc' = "joining"
    /\ UNCHANGED <<args, cluster, list_errors, results, used_config_maps,
                   config_maps, unused_config_maps, filtered_out, printed,
                   targets, delete_calls, delete_errors, outcome,
                   in_flight, run, first>>

\* join! that returns at the first list call answered with an error.
CompleteOrReturn(k) ==
    /\ pc = "joining"
    /\ k \in pending
    /\ \E failing \in {f \in {{}, {k}} :
                          Cardinality(list_errors \cup f) <= MaxListFailures} :
          /\ results' = [results EXCEPT ![k] = Fetch(revision, cluster, k, failing)]
          /\ list_errors' = list_errors \cup failing
          /\ pending' = pending \ {k}
          /\ IF failing # {} /\ revision = "clean"
             THEN pc' = "done" /\ outcome' = "Err"
             ELSE /\ pc' = IF pending' = {} THEN "joined" ELSE pc
                  /\ outcome' = outcome
    /\ UNCHANGED <<args, cluster, list_calls, used_config_maps,
                   config_maps, unused_config_maps, filtered_out, printed,
                   targets, delete_calls, delete_errors,
                   in_flight, run, first>>

\* One of the eight futures completes, in any order; join! returns when the
\* last one has.
Complete(k) ==
    /\ pc = "joining"
    /\ k \in pending
    /\ \E failing \in {f \in {{}, {k}} :
                          Cardinality(list_errors \cup f) <= MaxListFailures} :
          /\ results' = [results EXCEPT ![k] = Fetch(revision, cluster, k, failing)]
          /\ list_errors' = list_errors \cup failing
    /\ pending' = pending \ {k}
    /\ pc' = IF pending' = {} THEN "joined" ELSE pc
    /\ UNCHANGED <<args, cluster, list_calls, used_config_maps,
                   config_maps, unused_config_maps, filtered_out, printed,
                   targets, delete_calls, delete_errors, outcome,
                   in_flight, run, first>>

\* The loop issuing a delete call while another is not answered.
DeleteIssueUnawaited ==
    /\ pc = "deleting"
    /\ \E t \in targets :
          /\ delete_calls' = Append(delete_calls, t)
          /\ targets' = targets \ {t}
          /\ in_flight' = in_flight \cup {t}
    /\ UNCHANGED <<args, cluster, pc, list_calls, list_errors, results,
                   used_config_maps, config_maps, unused_config_maps,
                   filtered_out, printed, delete_errors, outcome,
                   pending, run, first>>

\* resources.delete(name, ..) is called for the next name of the loop.
DeleteIssue ==
    /\ pc = "deleting"
    /\ in_flight = {}
    /\ \E t \in targets :
          /\ delete_calls' = Append(delete_calls, t)
          /\ targets' = targets \ {t}
          /\ in_flight' = in_flight \cup {t}
    /\ UNCHANGED <<args, cluster, pc, list_calls, list_errors, results,
                   used_config_maps, config_maps, unused_config_maps,
                   filtered_out, printed, delete_errors, outcome,
                   pending, run, first>>

\* .await on the delete call: the API server carried it out or failed it.
DeleteAnswer ==
    /\ pc = "deleting"
    /\ \E t \in in_flight, ok \in BOOLEAN :
          /\ in_flight' = in_flight \ {t}
          /\ IF ok
             THEN /\ cluster' = [cluster EXCEPT !.config_maps = @ \ {t}]
                  /\ UNCHANGED delete_errors
                  /\ pc' = pc
             ELSE /\ cluster' = cluster
                  /\ delete_errors' = delete_errors \cup {t}
                  /\ pc' = IF returns_on_error(revision) THEN "deleted" ELSE pc
    /\ UNCHANGED <<args, list_calls, list_errors, results, used_config_maps,
                   config_maps, unused_config_maps, filtered_out, printed,
                   targets, delete_calls, outcome, pending, run, first>>

\* The command is called again with the same arguments.
Rerun ==
    /\ pc = "done"
    /\ run = 1
    /\ run' = 2
    /\ first' = [computed   |-> outcome = "Ok",
                 candidates |-> unused_config_maps,
                 deleted    |-> {delete_calls[i] : i \in 1..Len(delete_calls)}
                                    \ delete_errors]
    /\ pc' = "start"
    /\ list_calls' = {}
    /\ list_errors' = {}
    /\ results' = [k \in Kinds |-> Pending]
    /\ used_config_maps' = {}
    /\ config_maps' = {}
    /\ unused_config_maps' = {}
    /\ filtered_out' = {}
    /\ printed' = {}
    /\ targets' = {}
    /\ delete_calls' = <<>>
    /\ delete_errors' = {}
    /\ outcome' = "Running"
    /\ UNCHANGED <<args, cluster, pending, in_flight>>

NextSteps ==
    \/ Poll
    \/ \E k \in Kinds : Complete(k)
    \/ Merge
    \/ Diff
    \/ Report
    \/ DryRun
    \/ StartDelete
    \/ DeleteIssue
    \/ DeleteAnswer
    \/ DeleteReturn
    \/ Finish
    \/ Rerun

SpecSteps == InitSteps /\ [][NextSteps]_vars

TypeOK ==
    /\ pc \in {"start", "joining", "joined", "merged", "diffed", "reported", "deleting",
               "deleted", "done"}
    /\ outcome \in {"Running", "Ok", "Err", "Panic"}
    /\ used_config_maps \subseteq Names
    /\ unused_config_maps \subseteq Names

-----------------------------------------------------------------------------
(* Vocabulary of the claims. *)

\* The candidate set has been computed.
Computed == pc \in {"diffed", "reported", "deleting", "deleted"}
            \/ (pc = "done" /\ outcome = "Ok")

\* The names the ConfigMap list call returned.
Declared == results["ConfigMap"].items

\* The workload objects the seven workload fetches returned.
Fetched == UNION {results[WorkloadKinds[i]].items : i \in 1..Len(WorkloadKinds)}

\* The names a workload refers to through one of the four fields.
RefsVia(w, shape) ==
    LET spec == w.pod_spec
    IN CASE shape = "env" ->
              {n \in Names : \E c \in spec.containers : \E e \in c.env : n \in e}
         [] shape = "env_from" ->
              {n \in Names : \E c \in spec.containers : \E e \in c.env_from : n \in e}
         [] shape = "volume" ->
              {n \in Names : \E vs \in spec.volumes : \E v \in vs : v.config_map = n}
         [] shape = "projected" ->
              {n \in Names : \E vs \in spec.volumes : \E v \in vs :
                                \E srcs \in v.projected : n \in srcs}

Shapes == {"env", "env_from", "volume", "projected"}

Refs(w) == UNION {RefsVia(w, shape) : shape \in Shapes}

\* The names some fetched workload refers to.
UsedByFetched == UNION {Refs(w) : w \in Fetched}

\* The filter rule drops the name.
FilteredOut(n) == filter # None /\ (RegexFind(filter, n) <=> inverse_filter)

DeleteTargets == {delete_calls[i] : i \in 1..Len(delete_calls)}

-----------------------------------------------------------------------------
\* C1: once the candidate set is computed, a name is a candidate exactly when
\* it is a fetched ConfigMap name that no fetched workload refers to, that is
\* not exempted and that the filter rule does not drop.
C1_CandidatesAreDeclaredMinusUsed ==
    Computed =>
        \A n \in Names :
            n \in unused_config_maps <=>
                /\ n \in Declared
                /\ n \notin UsedByFetched
                /\ n \notin EXEMPTIONS
                /\ ~FilteredOut(n)

C1_Witness ==
    /\ pc = "diffed"
    /\ unused_config_maps # {}
    /\ filtered_out # {}
    /\ Declared \cap UsedByFetched # {}
    /\ "kube-root-ca.crt" \in Declared

\* C2: with dry_run set no delete call is issued and the cluster keeps its
\* ConfigMaps, whatever the candidates and the filter.
C2_DryRunIssuesNoDelete ==
    dry_run => delete_calls = <<>> /\ targets = {} /\ delete_errors = {}

C2_Witness ==
    /\ dry_run
    /\ pc = "done"
    /\ outcome = "Ok"
    /\ unused_config_maps # {}
    /\ printed = unused_config_maps
    /\ filter # None

\* C4: kube-root-ca.crt is never a candidate, never printed and never the
\* target of a delete call.
C4_ExemptedNeverCandidate ==
    /\ "kube-root-ca.crt" \notin unused_config_maps
    /\ "kube-root-ca.crt" \notin printed
    /\ "kube-root-ca.crt" \notin targets
    /\ "kube-root-ca.crt" \notin DeleteTargets

C4_Witness ==
    /\ pc = "done"
    /\ outcome = "Ok"
    /\ ~dry_run
    /\ filter = "ot"
    /\ ~inverse_filter
    /\ "kube-root-ca.crt" \in Declared
    /\ "kube-root-ca.crt" \notin used_config_maps
    /\ DeleteTargets = {"other"}

\* C5: over the unused, non-exempt names, a pattern without inverse_filter
\* keeps exactly the matching names and with inverse_filter exactly the
\* others; kept and dropped names partition the input, as do the results of
\* the two directions; without a filter every name is kept.
C5_FilterKeepsExactlyTheMatching ==
    Computed =>
        LET input == {n \in config_maps \ used_config_maps : n \notin EXEMPTIONS}
            match == {n \in input : RegexFind(filter, n)}
        IN /\ filter = None => unused_config_maps = input /\ filtered_out = {}
           /\ filter # None /\ ~inverse_filter => unused_config_maps = match
           /\ filter # None /\ inverse_filter => unused_config_maps = input \ match
           /\ unused_config_maps \cup filtered_out = input
           /\ unused_config_maps \cap filtered_out = {}
           /\ filter # None =>
                LET kept == Candidates(filter, FALSE, config_maps, used_config_maps)
                    rest == Candidates(filter, TRUE, config_maps, used_config_maps)
                IN kept \cup rest = input /\ kept \cap rest = {}

C5_Witness ==
    /\ pc = "diffed"
    /\ filter = "^temp-"
    /\ ~inverse_filter
    /\ unused_config_maps = {"temp-a"}
    /\ filtered_out = {"other"}

\* C6: a ConfigMap that a fetched workload of any of the seven kinds refers
\* to through any of the four fields is in the used set and is no candidate.
C6_ReferencedIsUsed ==
    \A i \in 1..Len(WorkloadKinds) : \A shape \in Shapes :
        (pc = "merged" \/ Computed) =>
            \A w \in results[WorkloadKinds[i]].items :
                \A n \in RefsVia(w, shape) :
                    n \in used_config_maps /\ n \notin unused_config_maps

C6_Witness ==
    /\ pc = "diffed"
    /\ "other" \in Declared
    /\ \E w \in results["CronJob"].items : RefsVia(w, "projected") = {"other"}
    /\ used_config_maps = {"other"}

-----------------------------------------------------------------------------
\* C3: when a list call fails the run ends with an error, prints no
\* candidate and issues no delete call.
C3_ListFailureAborts ==
    list_errors # {} =>
        /\ printed = {}
        /\ delete_calls = <<>>
        /\ pc = "done" => outcome = "Err"

\* C7: a run that deletes issues a delete call for every candidate, also
\* after a delete call failed.
C7_DeleteFailureDoesNotAbort ==
    (pc = "done" /\ outcome = "Ok" /\ ~dry_run) => DeleteTargets = unused_config_maps

\* C8: a fetched workload without pod template does not crash the run: the
\* references of the others are collected and the candidate set is computed.
C8_MissingSpecIsNotFatal ==
    (pc = "done" /\ list_errors = {} /\ (filter = None \/ RegexNewOk(filter))) =>
        /\ outcome = "Ok"
        /\ UsedByFetched \subseteq used_config_maps

\* C9: with a pattern that does not compile the run ends with an error, and
\* no list call and no delete call is issued.
C9_InvalidFilterFailsBeforeAnyCall ==
    (filter # None /\ ~RegexNewOk(filter)) =>
        /\ list_calls = {}
        /\ delete_calls = <<>>
        /\ pc = "done" => outcome \in {"Err", "Panic"}

\* C10: the ownerless fetch of Pods and Jobs returns exactly the objects
\* whose owner-reference list is absent or has no entry.
C10_OwnerlessFetchKeepsEmptyOwnerLists ==
    \A k \in OwnerlessKinds :
        (pc # "start" /\ k \notin list_errors) =>
            results[k].items =
                {w \in cluster.workloads :
                    w.kind = k /\ w.owner_references \in {None, "Empty"}}

-----------------------------------------------------------------------------
\* C12: a run that deletes, with every list call answered and a filter that
\* compiles, ends with Ok, whether delete calls failed or not.
C12_DeleteFailuresKeepSuccess ==
    (pc = "done" /\ ~dry_run /\ list_errors = {}
        /\ (filter = None \/ RegexNewOk(filter))) =>
        outcome = "Ok"

-----------------------------------------------------------------------------
\* C11: a second call of the command with the same arguments, on a cluster
\* the first call left as it found it, computes the candidate set the first
\* call computed.
C11_SecondRunSameCandidates ==
    (run = 2 /\ first.computed /\ first.deleted = {}
        /\ pc \in {"diffed", "reported"}) =>
        unused_config_maps = first.candidates

-----------------------------------------------------------------------------
\* C13: the eight list calls are issued together and all of them awaited, also
\* after one of them failed: the run does not merge, report, delete or end
\* while a list call is not answered, and it answers them in any order.
C13_AllListCallsJoined ==
    /\ pc # "start" => list_calls = Kinds
    /\ pending \subseteq list_calls
    /\ \A k \in Kinds : results[k].pending <=> (pc = "start" \/ k \in pending)
    /\ (\/ pc \notin {"start", "joining"}
        \/ used_config_maps # {}
        \/ printed # {}
        \/ delete_calls # <<>>
        \/ outcome # "Running") => pending = {}

\* A list call failed while others were not answered, and the run ended only
\* after the eight were answered.
C13_Witness ==
    /\ pc = "done"
    /\ outcome = "Err"
    /\ list_errors = {"ConfigMap"}
    /\ list_calls = Kinds
    /\ pending = {}
    /\ \A k \in Kinds \ {"ConfigMap"} : results[k].ok

-----------------------------------------------------------------------------
\* C15: every delete call names a fetched ConfigMap that is not in the used
\* set, is not exempted and passed the filter; no name gets two delete calls
\* in a run; and a delete call is issued only when the one before is answered.
C15_DeletesAreCandidatesOnceInTurn ==
    /\ \A n \in DeleteTargets \cup in_flight :
          /\ n \in Declared
          /\ n \notin used_config_maps
          /\ n \notin EXEMPTIONS
          /\ ~FilteredOut(n)
    /\ \A i, j \in 1..Len(delete_calls) :
          delete_calls[i] = delete_calls[j] => i = j
    /\ Cardinality(in_flight) <= 1
    /\ in_flight # {} => in_flight = {delete_calls[Len(delete_calls)]}

\* The second delete call of a run is in flight, the first one answered.
C15_Witness ==
    /\ Len(delete_calls) = 2
    /\ in_flight = {delete_calls[2]}
    /\ delete_errors = {delete_calls[1]}
    /\ used_config_maps # {}

====
